---- MODULE Spec2Model ----
(***************************************************************************)
(* Embedding maintenance and semantic search of ContactX.                  *)
(*                                                                         *)
(*   generate-embeddings edge function   src/unnamed/part_000              *)
(*   semantic-search edge function       src/supabase/functions/           *)
(*                                         semantic-search/index.ts        *)
(*   contact_embeddings, find_similar_contacts, generate_embedding_content *)
(*                                       src/supabase/migrations/          *)
(*                                         003_ai_tables.sql               *)
(*   contacts, notes, tags, contact_tags src/unnamed/part_002              *)
(*   contact_metadata                    src/unnamed/part_003              *)
(*                                                                         *)
(* Text is a sequence of characters.  A nullable SQL value is either NULL  *)
(* or a text.  Similarities are fixed-point numbers in thousandths.        *)
(***************************************************************************)
EXTENDS Integers, Sequences, FiniteSets, TLC

VARIABLES
    contacts,     \* public.contacts: id -> row
    metadata,     \* public.contact_metadata, as seen through the LEFT JOIN
    notes,        \* public.notes: contact id -> note contents, oldest first
    tags,         \* contact_tags JOIN tags: contact id -> tag names, in scan order
    embeddings,   \* public.contact_embeddings: a set of rows
    nextId,       \* the next value gen_random_uuid() hands out
    edits,        \* number of data edits made so far
    run,          \* generate-embeddings: one request per slot
    hist,         \* per request: what happened to it (history)
    lastRun,      \* the last request that ran to its end undisturbed (history)
    search,       \* semantic-search: the response being delivered
    shist,        \* the request behind that response and what it cost (history)
    lastOk,       \* contact id -> the values of its last successful upsert (history)
    asked,        \* the request being served, as it was sent (history)
    imported,     \* public.contacts: the rows bulk_import_contacts inserted, in order
    imp,          \* bulk_import_contacts: the call and what it returned
    conversations,\* public.ai_conversation_history: its rows, oldest first
    chat,         \* ai-chat: the response being delivered
    chist         \* the request behind that response and what was sent (history)

vars == <<contacts, metadata, notes, tags, embeddings, nextId, edits,
          run, hist, lastRun, search, shist, lastOk, asked, imported, imp,
          conversations, chat, chist>>

importVars == <<imported, imp>>

chatVars == <<conversations, chat, chist>>

\* the state of the functions a specification leaves out
others == <<importVars, chatVars>>

dataVars == <<contacts, metadata, notes, tags>>

-----------------------------------------------------------------------------
(* Bounds of the model *)

MaxEdits == 1          \* data edits in one behaviour
MaxBatchSize == 2      \* explicit batchSize values are 1..MaxBatchSize
MaxLimit == 1          \* explicit limit values are 0..MaxLimit
MaxImport == 3         \* p_contacts holds at most MaxImport elements
MaxStored == 6         \* ai-chat is called while fewer rows than this are stored

(* Program constants *)

DefaultBatchSize == 50
DefaultLimit == 10
DefaultThreshold == 700
RecentNotes == 5
HistoryLimit == 5
SourceTextLen == 500

-----------------------------------------------------------------------------
(* Values *)

NULL == <<"NULL">>
NoRow == [id |-> 0, content_hash |-> NULL]     \* data: null of a row query
NoVector == 0 - 1
Omitted == "omitted"
NoUser == "nobody"

Tokens == {"tokA", "tokB", "bad"}
ContactIds == {"c1", "c2", "c3"}
UnknownId == "c0"                     \* an id no contact row has
RequestIds == ContactIds \cup {UnknownId}
Runs == {1, 2}

Min(a, b) == IF a < b THEN a ELSE b

Range(s) == {s[i] : i \in DOMAIN s}

Reverse(s) == [i \in 1..Len(s) |-> s[Len(s) + 1 - i]]

RECURSIVE Join(_, _)
Join(sep, xs) ==
    IF xs = <<>> THEN <<>>
    ELSE IF Len(xs) = 1 THEN xs[1]
    ELSE xs[1] \o <<sep>> \o Join(sep, Tail(xs))

NonNull(xs) == SelectSeq(xs, LAMBDA x : x # NULL)

\* CONCAT_WS(sep, ...): NULL arguments are skipped; '' when all are NULL.
ConcatWS(sep, xs) == Join(sep, NonNull(xs))

\* string_agg(value, sep): NULL over no rows.
StringAgg(xs, sep) == IF NonNull(xs) = <<>> THEN NULL ELSE Join(sep, NonNull(xs))

\* GetUser, were any token that is presented taken for a session of uA
GetUserAnyToken(jwt) ==
    CASE jwt = "tokA" -> "uA"
      [] jwt = "tokB" -> "uB"
      [] jwt = Omitted -> NoUser
      [] OTHER -> "uA"

\* supabase.auth.getUser(jwt)
GetUser(jwt) ==
    CASE jwt = "tokA" -> "uA"
      [] jwt = "tokB" -> "uB"
      [] OTHER -> NoUser

-----------------------------------------------------------------------------
(* generate_embedding_content(p_contact_id) *)

generate_embedding_content(cid) ==
    LET v_content ==
            IF cid \in DOMAIN contacts
            THEN ConcatWS(" ", <<contacts[cid].first_name,
                                 contacts[cid].last_name,
                                 contacts[cid].company,
                                 contacts[cid].job_title,
                                 contacts[cid].how_we_met,
                                 metadata[cid].location,
                                 metadata[cid].interests>>)
            ELSE NULL
        recent_notes ==
            IF cid \in DOMAIN notes
            THEN SubSeq(Reverse(notes[cid]), 1, Min(RecentNotes, Len(notes[cid])))
            ELSE <<>>
        v_notes == StringAgg(recent_notes, " ")
        v_tags ==
            IF cid \in DOMAIN tags THEN StringAgg(tags[cid], " ") ELSE NULL
    IN  ConcatWS(" ", <<v_content, v_notes, v_tags>>)

-----------------------------------------------------------------------------
(* generateHash: SHA-256 in hex.  The digest is modelled as a tagged copy  *)
(* of its input: equal texts have equal digests and no two texts collide.  *)

generateHash(content) == <<"sha256">> \o content

-----------------------------------------------------------------------------
(* The embedding provider: text -> vector.  A vector is a direction, one   *)
(* of Len(Cosine) evenly spaced unit vectors of the plane; the provider is *)
(* a fixed function of the text.                                           *)

Cosine == <<1000, 500, -500, -1000, -500, 500>>

Code(ch) == CASE ch = "a" -> 1 [] ch = "b" -> 2 [] OTHER -> 0

\* the sum of the codes of the characters of a text
SumCodes(text) ==
    Cardinality({k \in DOMAIN text : Code(text[k]) = 1})
      + 2 * Cardinality({k \in DOMAIN text : Code(text[k]) = 2})

ProviderVector(text) == SumCodes(text) % Len(Cosine)

\* a <=> b, pgvector's cosine distance
CosineDistance(a, b) == 1000 - Cosine[((a - b) % Len(Cosine)) + 1]

-----------------------------------------------------------------------------
(* contact_embeddings *)

\* contact_id UUID NOT NULL UNIQUE
UniqueContactId(tbl) ==
    \A r1, r2 \in tbl : r1.contact_id = r2.contact_id => r1 = r2

\* Upsert, had contact_id no UNIQUE constraint
UpsertNoUnique(tbl, values, newId) ==
    [error |-> NULL, table |-> tbl \cup {[id |-> newId] @@ values}]

\* Upsert, were the call made with ignoreDuplicates on contact_id
UpsertIgnoreDuplicates(tbl, values, newId) ==
    IF \E r \in tbl : r.contact_id = values.contact_id
    THEN [error |-> NULL, table |-> tbl]
    ELSE [error |-> NULL, table |-> tbl \cup {[id |-> newId] @@ values}]

\* supabase.from('contact_embeddings').upsert(values), no onConflict option:
\* PostgREST runs INSERT ... ON CONFLICT (<primary key>) DO UPDATE.  The
\* values carry no id, so the row takes id DEFAULT gen_random_uuid(), which
\* collides with no stored id; a second row for the same contact_id then
\* violates the UNIQUE constraint and the statement fails (SQLSTATE 23505).
Upsert(tbl, values, newId) ==
    LET row == [id |-> newId] @@ values
        samePk == {r \in tbl : r.id = row.id}
    IN  IF samePk # {}
        THEN [error |-> NULL, table |-> (tbl \ samePk) \cup {row}]
        ELSE IF row.contact_id \notin DOMAIN contacts
        THEN [error |-> <<"23503">>, table |-> tbl]
        ELSE IF ~UniqueContactId(tbl \cup {row})
        THEN [error |-> <<"23505">>, table |-> tbl]
        ELSE [error |-> NULL, table |-> tbl \cup {row}]

\* .from('contact_embeddings').select('id, content_hash').eq('contact_id', cid).single()
SelectExisting(cid) ==
    LET rows == {r \in embeddings : r.contact_id = cid}
    IN  IF Cardinality(rows) = 1
        THEN LET row == CHOOSE x \in rows : TRUE
             IN  [id |-> row.id, content_hash |-> row.content_hash]
        ELSE NoRow

-----------------------------------------------------------------------------
(* Initial state *)

Contact(id, owner, first, comp) ==
    [id |-> id, user_id |-> owner, first_name |-> first, last_name |-> NULL,
     phone_number |-> CASE id = "c1" -> <<"p1">> [] id = "c3" -> <<"p2">> [] OTHER -> NULL,
     email |-> IF id = "c2" THEN <<"e1">> ELSE NULL,
     company |-> comp, job_title |-> NULL, how_we_met |-> NULL,
     deleted_at |-> NULL]

ZeroResults ==
    [processed |-> 0, created |-> 0, updated |-> 0, skipped |-> 0, errors |-> <<>>]

IdleRun ==
    [pc |-> "idle", userId |-> NoUser, ids |-> <<>>, i |-> 0,
     content |-> NULL, contentHash |-> NULL, existing |-> NoRow,
     embedding |-> NoVector, results |-> ZeroResults, status |-> 0]

\* history of one request: the provider and store failures it met, the
\* contacts found to need an embedding, those found with a stale row, the
\* provider calls made, the contacts whose upsert succeeded, the number of
\* rows it added to the table, whether it follows an undisturbed run over the
\* same contacts, whether data or rows changed under it, whether any row
\* changed
NoHist ==
    [faults |-> {}, needed |-> {}, stale |-> {}, calls |-> <<>>, written |-> {},
     added |-> 0, follows |-> FALSE, disturbed |-> FALSE, tableChanged |-> FALSE]

NoSearch ==
    [status |-> 0, success |-> FALSE, query |-> NULL, results |-> <<>>,
     count |-> 0, error |-> NULL]

NoValues == [contact_id |-> NULL]

\* history of one search: the request as sent, the rows the store returned,
\* the calls made and the call that failed
NoSearchHist ==
    [method |-> "none", auth |-> Omitted,
     userId |-> NoUser, query |-> [type |-> "undefined", value |-> <<>>],
     threshold |-> 0, limit |-> 0, rows |-> <<>>,
     providerCalls |-> 0, storeQueries |-> 0, fault |-> "none"]

NoLastRun == [valid |-> FALSE, ids |-> {}]

NoImport ==
    [pc |-> "idle", p_user_id |-> NoUser, p_contacts |-> <<>>,
     before |-> 0, success |-> FALSE, imported_count |-> 0, skipped_count |-> 0,
     errors |-> <<>>]

NoChat == [status |-> 0, success |-> FALSE, response |-> NULL, error |-> NULL]

NoChatHist ==
    [userId |-> NoUser, message |-> NULL, contactId |-> Omitted,
     before |-> 0, sent |-> <<>>]

NoAsked == [method |-> "none", auth |-> Omitted, bodyOk |-> FALSE, batchSize |-> 0]

Init ==
    /\ contacts = [c \in ContactIds |->
                     CASE c = "c1" -> Contact(c, "uA", <<"a">>, NULL)
                       [] c = "c2" -> Contact(c, "uA", <<"a">>, <<"b">>)
                       [] OTHER    -> Contact(c, "uB", <<"b">>, NULL)]
    /\ metadata = [c \in ContactIds |->
                     [location |-> IF c = "c2" THEN <<"a">> ELSE NULL,
                      interests |-> NULL]]
    /\ notes = [c \in ContactIds |-> <<>>]
    /\ tags = [c \in ContactIds |-> IF c = "c2" THEN << <<"a">> >> ELSE <<>>]
    /\ embeddings = {}
    /\ nextId = 1
    /\ edits = 0
    /\ run = [r \in Runs |-> IdleRun]
    /\ hist = [r \in Runs |-> NoHist]
    /\ lastRun = NoLastRun
    /\ search = NoSearch
    /\ shist = NoSearchHist
    /\ lastOk = [c \in RequestIds |-> NoValues]
    /\ asked = NoAsked
    /\ imported = <<>>
    /\ imp = NoImport
    /\ conversations = <<>>
    /\ chat = NoChat
    /\ chist = NoChatHist

\* a text longer than the source text that is stored with a record
LongText == [k \in 1..SourceTextLen |-> "a"]

\* the initial state, with a long account of how c1 was met
InitLong ==
    /\ contacts = [c \in ContactIds |->
                     CASE c = "c1" -> [Contact(c, "uA", <<"a">>, NULL)
                                         EXCEPT !.how_we_met = LongText]
                       [] c = "c2" -> Contact(c, "uA", <<"a">>, <<"b">>)
                       [] OTHER    -> Contact(c, "uB", <<"b">>, NULL)]
    /\ metadata = [c \in ContactIds |->
                     [location |-> IF c = "c2" THEN <<"a">> ELSE NULL,
                      interests |-> NULL]]
    /\ notes = [c \in ContactIds |-> <<>>]
    /\ tags = [c \in ContactIds |-> IF c = "c2" THEN << <<"a">> >> ELSE <<>>]
    /\ embeddings = {}
    /\ nextId = 1
    /\ edits = 0
    /\ run = [r \in Runs |-> IdleRun]
    /\ hist = [r \in Runs |-> NoHist]
    /\ lastRun = NoLastRun
    /\ search = NoSearch
    /\ shist = NoSearchHist
    /\ lastOk = [c \in RequestIds |-> NoValues]
    /\ asked = NoAsked
    /\ imported = <<>>
    /\ imp = NoImport
    /\ conversations = <<>>
    /\ chat = NoChat
    /\ chist = NoChatHist

-----------------------------------------------------------------------------
(* Data edits made by the application outside the embedding pipeline *)

Active(r) == run[r].pc \notin {"idle", "done"}

\* the histories after the data or (changed = TRUE) the rows changed under
\* the requests in progress, but for request `self`
Disturb(self, changed) ==
    [r \in Runs |->
        IF ~Active(r) THEN hist[r]
        ELSE IF r = self THEN [hist[r] EXCEPT !.tableChanged = @ \/ changed]
        ELSE [hist[r] EXCEPT !.disturbed = TRUE, !.tableChanged = @ \/ changed]]

Edited ==
    /\ edits < MaxEdits
    /\ edits' = edits + 1
    /\ hist' = Disturb(0, FALSE)
    /\ UNCHANGED <<metadata, tags, embeddings, nextId, run, search, shist, lastOk>>

\* UPDATE contacts SET company = ...
UpdateCompany(c) ==
    /\ contacts' = [contacts EXCEPT ![c].company =
                        IF @ = NULL THEN <<"b">> ELSE NULL]
    /\ Edited
    /\ UNCHANGED notes

\* INSERT INTO notes
AddNote(c) ==
    /\ notes' = [notes EXCEPT ![c] = Append(@, <<"b">>)]
    /\ Edited
    /\ UNCHANGED contacts

\* UPDATE contacts SET deleted_at = NOW()
SoftDelete(c) ==
    /\ contacts[c].deleted_at = NULL
    /\ contacts' = [contacts EXCEPT ![c].deleted_at = <<"t">>]
    /\ Edited
    /\ UNCHANGED notes

-----------------------------------------------------------------------------
(* generate-embeddings: serve handler *)

\* .from('contacts').select('id').eq('user_id', userId).is('deleted_at', null)
\* .limit(batchSize): any batchSize of the qualifying rows, in any order.
SelectContacts(userId, batchSize) ==
    LET rows == {c \in DOMAIN contacts :
                    contacts[c].user_id = userId /\ contacts[c].deleted_at = NULL}
        n == Min(batchSize, Cardinality(rows))
    IN  {s \in [1..n -> rows] : \A i, j \in 1..n : s[i] = s[j] => i = j}

Respond(status) == [IdleRun EXCEPT !.pc = "done", !.status = status]

\* Advance, had the loop no catch of its own: an error recorded for the
\* contact ends the request in the handler's catch
AdvanceAbortsOnError(rec, results) ==
    IF Len(results.errors) > Len(rec.results.errors)
    THEN [IdleRun EXCEPT !.pc = "done", !.status = 500,
                         !.userId = rec.userId, !.ids = rec.ids, !.i = rec.i]
    ELSE IF rec.i < Len(rec.ids)
    THEN [rec EXCEPT !.pc = "compose", !.i = rec.i + 1, !.results = results,
                     !.content = NULL, !.contentHash = NULL,
                     !.existing = NoRow, !.embedding = NoVector]
    ELSE [rec EXCEPT !.pc = "done", !.status = 200, !.results = results,
                     !.content = NULL, !.contentHash = NULL,
                     !.existing = NoRow, !.embedding = NoVector]

\* the end of one iteration of the loop over contactIds: the next contact,
\* or the 200 response when none is left
Advance(rec, results) ==
    IF rec.i < Len(rec.ids)
    THEN [rec EXCEPT !.pc = "compose", !.i = rec.i + 1, !.results = results,
                     !.content = NULL, !.contentHash = NULL,
                     !.existing = NoRow, !.embedding = NoVector]
    ELSE [rec EXCEPT !.pc = "done", !.status = 200, !.results = results,
                     !.content = NULL, !.contentHash = NULL,
                     !.existing = NoRow, !.embedding = NoVector]

Cid(r) == run[r].ids[run[r].i]

\* Skipped, were a skipped contact not counted
SkippedUncounted(res) == res

\* results.skipped++
Skipped(res) == [res EXCEPT !.skipped = @ + 1]

\* Errored, were the contact counted as processed all the same
ErroredAndCounted(res, cid, message) ==
    [res EXCEPT !.errors = Append(@, [cid |-> cid, message |-> message]),
                !.processed = @ + 1]

\* results.errors.push(`${cid}: ${message}`)
Errored(res, cid, message) ==
    [res EXCEPT !.errors = Append(@, [cid |-> cid, message |-> message])]

\* a request that is turned away before the loop
Reject(r, status) ==
    /\ run' = [run EXCEPT ![r] = Respond(status)]
    /\ hist' = [hist EXCEPT ![r] = NoHist]

\* a request that reaches the loop over contactIds
Accept(r, user, ids) ==
    LET h == [NoHist EXCEPT
                !.follows = lastRun.valid /\ lastRun.ids = Range(ids)]
        new == Advance([IdleRun EXCEPT !.userId = user, !.ids = ids], ZeroResults)
    IN  /\ run' = [run EXCEPT ![r] = new]
        /\ hist' = [hist EXCEPT ![r] = h]

Methods == {"GET", "POST"}

Headers == Tokens \cup {Omitted}

BatchSizes == (1..MaxBatchSize) \cup {DefaultBatchSize}

\* the request is turned away by its method, its Authorization header, its
\* token or (req.json() throws) its body
RejectedWith(r, method, authHeader, bodyOk) ==
    /\ run[r].pc = "idle"
    /\ IF method # "POST" THEN Reject(r, 405)
       ELSE IF authHeader = Omitted THEN Reject(r, 401)
       ELSE IF GetUser(authHeader) = NoUser THEN Reject(r, 401)
       ELSE ~bodyOk /\ Reject(r, 500)
    /\ UNCHANGED <<dataVars, embeddings, nextId, edits, search, shist, lastOk>>

RejectedRequest(r) ==
    \E method \in Methods, authHeader \in Headers, bodyOk \in BOOLEAN :
        RejectedWith(r, method, authHeader, bodyOk)

\* { contactId }: contactIds = [contactId]
SingleWith(r, authHeader, contactId) ==
    /\ run[r].pc = "idle"
    /\ authHeader # Omitted
    /\ GetUser(authHeader) # NoUser
    /\ Accept(r, GetUser(authHeader), <<contactId>>)
    /\ UNCHANGED <<dataVars, embeddings, nextId, edits, search, shist, lastOk>>

SingleRequest(r) ==
    \E authHeader \in Tokens, contactId \in RequestIds :
        SingleWith(r, authHeader, contactId)

\* { batchSize? }: contactIds = the caller's contacts, batchSize of them
SweepWith(r, authHeader, batchSize) ==
    /\ run[r].pc = "idle"
    /\ authHeader # Omitted
    /\ GetUser(authHeader) # NoUser
    /\ \E ids \in SelectContacts(GetUser(authHeader), batchSize) :
          Accept(r, GetUser(authHeader), ids)
    /\ UNCHANGED <<dataVars, embeddings, nextId, edits, search, shist, lastOk>>

SweepRequest(r) ==
    \E authHeader \in Tokens, batchSize \in BatchSizes :
        SweepWith(r, authHeader, batchSize)

\* the select of the caller's contacts fails: its error is not read and
\* contactIds = contacts?.map(...) || [] is empty
SelectFails(r, authHeader, batchSize) ==
    /\ run[r].pc = "idle"
    /\ authHeader # Omitted
    /\ GetUser(authHeader) # NoUser
    /\ run' = [run EXCEPT ![r] =
                  Advance([IdleRun EXCEPT !.userId = GetUser(authHeader)], ZeroResults)]
    /\ hist' = [hist EXCEPT ![r] = [NoHist EXCEPT !.faults = {<<"all", "select">>}]]
    /\ UNCHANGED <<dataVars, embeddings, nextId, edits, search, shist, lastOk>>

\* NoContent, were only null taken for no content
NoContentNullOnly(content) == content = NULL

\* !content: null or the empty string
NoContent(content) == content = NULL \/ content = <<>>

\* supabase.rpc('generate_embedding_content'), if (!content), generateHash
Compose(r) ==
    /\ run[r].pc = "compose"
    /\ LET content == generate_embedding_content(Cid(r))
           new == IF NoContent(content)
                  THEN Advance(run[r], Skipped(run[r].results))
                  ELSE [run[r] EXCEPT !.pc = "lookup", !.content = content,
                                      !.contentHash = generateHash(content)]
       IN  /\ run' = [run EXCEPT ![r] = new]
    /\ UNCHANGED <<dataVars, embeddings, nextId, edits, hist, search, shist, lastOk>>

\* the rpc fails: { data: null, error }, of which only data is read
ComposeFails(r) ==
    /\ run[r].pc = "compose"
    /\ run' = [run EXCEPT ![r] = Advance(run[r], Skipped(run[r].results))]
    /\ hist' = [hist EXCEPT ![r].faults = @ \cup {<<Cid(r), "compose">>}]
    /\ UNCHANGED <<dataVars, embeddings, nextId, edits, search, shist, lastOk>>

\* crypto.subtle.digest rejects; the loop's catch records the message
HashFails(r) ==
    /\ run[r].pc = "compose"
    /\ generate_embedding_content(Cid(r)) \notin {NULL, <<>>}
    /\ run' = [run EXCEPT ![r] =
                  Advance(run[r], Errored(run[r].results, Cid(r), <<"digest failed">>))]
    /\ hist' = [hist EXCEPT ![r].faults = @ \cup {<<Cid(r), "hash">>}]
    /\ UNCHANGED <<dataVars, embeddings, nextId, edits, search, shist, lastOk>>

\* SameHash, were the stored hash compared with the content itself
SameHashAsContent(existing, contentHash) ==
    existing # NoRow /\ existing.content_hash = Tail(contentHash)

\* existing && existing.content_hash === contentHash
SameHash(existing, contentHash) ==
    existing # NoRow /\ existing.content_hash = contentHash

\* the lookup of the stored row and the comparison of the hashes
Lookup(r) ==
    /\ run[r].pc = "lookup"
    /\ LET existing == SelectExisting(Cid(r))
           same == SameHash(existing, run[r].contentHash)
           h == [hist[r] EXCEPT
                   !.needed = IF same THEN @ ELSE @ \cup {Cid(r)},
                   !.stale = IF existing # NoRow /\ ~same THEN @ \cup {Cid(r)} ELSE @]
           new == IF same
                  THEN Advance(run[r], Skipped(run[r].results))
                  ELSE [run[r] EXCEPT !.pc = "embed", !.existing = existing]
       IN  /\ run' = [run EXCEPT ![r] = new]
           /\ hist' = [hist EXCEPT ![r] = h]
    /\ UNCHANGED <<dataVars, embeddings, nextId, edits, search, shist, lastOk>>

\* the lookup fails: { data: null, error }, of which only data is read, so
\* the contact is taken to have no stored row
LookupFails(r) ==
    /\ run[r].pc = "lookup"
    /\ run' = [run EXCEPT ![r] = [run[r] EXCEPT !.pc = "embed", !.existing = NoRow]]
    /\ hist' = [hist EXCEPT ![r].faults = @ \cup {<<Cid(r), "lookup">>},
                            ![r].needed = @ \cup {Cid(r)}]
    /\ UNCHANGED <<dataVars, embeddings, nextId, edits, search, shist, lastOk>>

\* generateEmbedding(content); a failure is caught by the loop's catch
Embed(r) ==
    /\ run[r].pc = "embed"
    /\ \E responseOk \in BOOLEAN :
        LET h == [hist[r] EXCEPT
                    !.calls = Append(@, Cid(r)),
                    !.faults = IF responseOk THEN @ ELSE @ \cup {<<Cid(r), "provider">>}]
            new == IF responseOk
                   THEN [run[r] EXCEPT !.pc = "upsert",
                                       !.embedding = ProviderVector(run[r].content)]
                   ELSE Advance(run[r],
                                Errored(run[r].results, Cid(r), <<"OpenAI API error">>))
        IN  /\ run' = [run EXCEPT ![r] = new]
            /\ hist' = [hist EXCEPT ![r] = h]
    /\ UNCHANGED <<dataVars, embeddings, nextId, edits, search, shist, lastOk>>

\* UpsertValues, were the source text composed anew when the row is written
UpsertValuesRecomposed(rec) ==
    [contact_id |-> rec.ids[rec.i],
     user_id |-> rec.userId,
     embedding |-> rec.embedding,
     content_hash |-> rec.contentHash,
     source_text |-> LET now == generate_embedding_content(rec.ids[rec.i])
                     IN  SubSeq(now, 1, Min(SourceTextLen, Len(now)))]

\* the values of the upsert
UpsertValues(rec) ==
    [contact_id |-> rec.ids[rec.i],
     user_id |-> rec.userId,
     embedding |-> rec.embedding,
     content_hash |-> rec.contentHash,
     source_text |-> SubSeq(rec.content, 1, Min(SourceTextLen, Len(rec.content)))]

\* Counted, were every upsert that succeeds counted as an update
CountedAsUpdated(res, existing) ==
    [res EXCEPT !.updated = @ + 1, !.processed = @ + 1]

\* if (existing) results.updated++ else results.created++; results.processed++
Counted(res, existing) ==
    IF existing # NoRow
    THEN [res EXCEPT !.updated = @ + 1, !.processed = @ + 1]
    ELSE [res EXCEPT !.created = @ + 1, !.processed = @ + 1]

\* the upsert and the counters that follow it
UpsertStep(r) ==
    /\ run[r].pc = "upsert"
    /\ \E storeOk \in BOOLEAN :
        LET out == IF storeOk THEN Upsert(embeddings, UpsertValues(run[r]), nextId)
                   ELSE [error |-> <<"store unavailable">>, table |-> embeddings]
            wrote == out.table # embeddings
            hs == Disturb(r, wrote)
            ha == [hs[r] EXCEPT !.added = @ + Cardinality(out.table \ embeddings)]
            h == IF ~storeOk
                 THEN [ha EXCEPT !.faults = @ \cup {<<Cid(r), "upsert">>}]
                 ELSE IF out.error = NULL
                 THEN [ha EXCEPT !.written = @ \cup {Cid(r)}]
                 ELSE ha
            new == IF out.error # NULL
                   THEN Advance(run[r], Errored(run[r].results, Cid(r), out.error))
                   ELSE Advance(run[r], Counted(run[r].results, run[r].existing))
        IN  /\ run' = [run EXCEPT ![r] = new]
            /\ embeddings' = out.table
            /\ nextId' = IF wrote THEN nextId + 1 ELSE nextId
            /\ hist' = [hs EXCEPT ![r] = h]
            /\ lastOk' = IF out.error = NULL
                         THEN [lastOk EXCEPT ![Cid(r)] = UpsertValues(run[r])]
                         ELSE lastOk
    /\ UNCHANGED <<dataVars, edits, search, shist>>

\* CutOff, were the writes of a request undone when it is cut off
CutOffRollsBack(r) ==
    /\ Active(r)
    /\ run' = [run EXCEPT ![r] = [run[r] EXCEPT !.pc = "done"]]
    /\ embeddings' = {ce \in embeddings : ce.contact_id \notin hist[r].written}
    /\ UNCHANGED <<dataVars, nextId, edits, hist, search, shist, lastOk>>

\* the request is cut off at one of its awaits (time limit of the platform):
\* the handler runs no further and no response is built (status stays 0);
\* each statement already sent to the store has been applied on its own
CutOff(r) ==
    /\ Active(r)
    /\ run' = [run EXCEPT ![r] = [run[r] EXCEPT !.pc = "done"]]
    /\ UNCHANGED <<dataVars, embeddings, nextId, edits, hist, search, shist, lastOk>>

\* the response has been delivered; the slot serves the next request
Reset(r) ==
    /\ run[r].pc = "done"
    /\ run' = [run EXCEPT ![r] = IdleRun]
    /\ hist' = [hist EXCEPT ![r] = NoHist]
    /\ UNCHANGED <<dataVars, embeddings, nextId, edits, search, shist, lastOk>>

-----------------------------------------------------------------------------
(* find_similar_contacts(p_user_id, p_query_embedding, p_limit, p_threshold) *)

Similarity(ce, q) == 1000 - CosineDistance(ce.embedding, q)

\* Qualifying, without ce.user_id = p_user_id
QualifyingAnyUser(p_user_id, q, p_similarity_threshold) ==
    {ce \in embeddings :
        /\ ce.contact_id \in DOMAIN contacts
        /\ contacts[ce.contact_id].deleted_at = NULL
        /\ Similarity(ce, q) >= p_similarity_threshold}

\* Qualifying, without the threshold
QualifyingNoThreshold(p_user_id, q, p_similarity_threshold) ==
    {ce \in embeddings :
        /\ ce.contact_id \in DOMAIN contacts
        /\ ce.user_id = p_user_id
        /\ contacts[ce.contact_id].deleted_at = NULL}

\* Qualifying, without c.deleted_at IS NULL
QualifyingWithDeleted(p_user_id, q, p_similarity_threshold) ==
    {ce \in embeddings :
        /\ ce.contact_id \in DOMAIN contacts
        /\ ce.user_id = p_user_id
        /\ Similarity(ce, q) >= p_similarity_threshold}

\* FROM contact_embeddings ce JOIN contacts c ON ce.contact_id = c.id WHERE ...
Qualifying(p_user_id, q, p_similarity_threshold) ==
    {ce \in embeddings :
        /\ ce.contact_id \in DOMAIN contacts
        /\ ce.user_id = p_user_id
        /\ contacts[ce.contact_id].deleted_at = NULL
        /\ Similarity(ce, q) >= p_similarity_threshold}

\* Ranked, without the ORDER BY
RankedInAnyOrder(rows, q, p_limit) ==
    LET n == Min(p_limit, Cardinality(rows))
    IN  {s \in [1..n -> rows] : \A i, j \in 1..n : s[i] = s[j] => i = j}

\* ORDER BY ce.embedding <=> q LIMIT p_limit: the rows a query may return,
\* as sequences of contact_embeddings rows; equal distances come in any order
Ranked(rows, q, p_limit) ==
    LET n == Min(p_limit, Cardinality(rows))
    IN  {s \in [1..n -> rows] :
            /\ \A i, j \in 1..n : s[i] = s[j] => i = j
            /\ \A i, j \in 1..n :
                 i < j => CosineDistance(s[i].embedding, q) <= CosineDistance(s[j].embedding, q)
            /\ \A ce \in rows \ Range(s) : \A i \in 1..n :
                 CosineDistance(s[i].embedding, q) <= CosineDistance(ce.embedding, q)}

\* the SELECT list
MatchRow(ce, q) ==
    [contact_id |-> contacts[ce.contact_id].id,
     similarity |-> Similarity(ce, q),
     first_name |-> contacts[ce.contact_id].first_name,
     last_name |-> contacts[ce.contact_id].last_name,
     company |-> contacts[ce.contact_id].company,
     job_title |-> contacts[ce.contact_id].job_title]

\* idx_contact_embeddings_vector, USING ivfflat ... WITH (lists = 100): the
\* ORDER BY ... <=> may be served by a scan of this index, which visits only
\* the rows of the lists nearest to the query (the others are not seen, the
\* WHERE is applied to those visited), or by a scan of the whole table.  The
\* sets of rows a scan may visit:
Scanned == SUBSET embeddings

find_similar_contacts(p_user_id, q, p_limit, p_similarity_threshold) ==
    UNION {Ranked(Qualifying(p_user_id, q, p_similarity_threshold) \cap visited,
                  q, p_limit) : visited \in Scanned}

-----------------------------------------------------------------------------
(* semantic-search: serve handler *)

\* the values the request body may carry as query
QueryValues ==
    {[type |-> "undefined", value |-> <<>>],
     [type |-> "string", value |-> <<>>],
     [type |-> "string", value |-> <<"a">>],
     [type |-> "string", value |-> <<"b">>],
     [type |-> "number", value |-> <<"0">>],
     [type |-> "number", value |-> <<"7">>]}

Thresholds == {500, DefaultThreshold, 900}

\* !query
Falsy(query) ==
    \/ query.type = "undefined"
    \/ query.type = "string" /\ query.value = <<>>
    \/ query.type = "number" /\ query.value = <<"0">>

\* QueryRejected, with the typeof test alone
QueryRejectedByType(query) == query.type # "string"

QueryRejected(query) == Falsy(query) \/ query.type # "string"

ErrorResponse(status, message) ==
    [NoSearch EXCEPT !.status = status, !.error = message]

\* ResultCount, were the index of the last result returned
ResultCountLastIndex(results) == IF results = <<>> THEN 0 ELSE Len(results) - 1

\* results: results || [], count: results?.length || 0
ResultCount(results) == Len(results)

SuccessResponse(query, results) ==
    [status |-> 200, success |-> TRUE, query |-> query.value,
     results |-> results, count |-> ResultCount(results), error |-> NULL]

\* Caught, were a failure answered as a search that found nothing
CaughtAsNoMatch(message) ==
    [status |-> 200, success |-> TRUE, query |-> NULL, results |-> <<>>,
     count |-> 0, error |-> NULL]

\* the handler's catch: status 500 with the message of what was thrown
Caught(message) == ErrorResponse(500, message)

SearchRejected ==
    /\ \E method \in Methods, authHeader \in Headers, bodyOk \in BOOLEAN :
        /\ search' =
             IF method # "POST" THEN ErrorResponse(405, <<"Method not allowed">>)
             ELSE IF authHeader = Omitted
             THEN ErrorResponse(401, <<"Missing authorization">>)
             ELSE IF GetUser(authHeader) = NoUser
             THEN ErrorResponse(401, <<"Unauthorized">>)
             ELSE Caught(<<"Unexpected token">>)             \* req.json() throws
        /\ (method = "POST" /\ authHeader # Omitted /\ GetUser(authHeader) # NoUser)
             => ~bodyOk
        /\ shist' = [NoSearchHist EXCEPT !.method = method, !.auth = authHeader]
    /\ UNCHANGED <<dataVars, embeddings, nextId, edits, run, hist, lastOk>>

SearchRequest ==
    /\ \E authHeader \in Tokens, query \in QueryValues, responseOk \in BOOLEAN :
        LET userId == GetUser(authHeader)
            h == [NoSearchHist EXCEPT !.method = "POST", !.auth = authHeader,
                                      !.userId = userId, !.query = query]
        IN  /\ userId # NoUser
            /\ IF QueryRejected(query) THEN
                   /\ responseOk
                   /\ search' = ErrorResponse(400, <<"Query is required">>)
                   /\ shist' = h
               ELSE IF ~responseOk THEN
                   /\ search' = Caught(<<"OpenAI API error">>)
                   /\ shist' = [h EXCEPT !.providerCalls = 1, !.fault = "provider"]
               ELSE
                   \E limit \in (0..MaxLimit) \cup {DefaultLimit},
                      similarityThreshold \in Thresholds, rpcOk \in BOOLEAN :
                       LET hq == [h EXCEPT !.threshold = similarityThreshold,
                                           !.limit = limit,
                                           !.providerCalls = 1, !.storeQueries = 1]
                       IN  IF ~rpcOk THEN
                               /\ search' = Caught(<<"Search error">>)
                               /\ shist' = [hq EXCEPT !.fault = "store"]
                           ELSE
                               \E found \in find_similar_contacts(userId,
                                            ProviderVector(query.value), limit,
                                            similarityThreshold) :
                                   /\ search' = SuccessResponse(query,
                                        [i \in 1..Len(found) |->
                                            MatchRow(found[i], ProviderVector(query.value))])
                                   /\ shist' = [hq EXCEPT !.rows = found]
    /\ UNCHANGED <<dataVars, embeddings, nextId, edits, run, hist, lastOk>>

\* the response has been delivered
SearchReset ==
    /\ search.status # 0
    /\ search' = NoSearch
    /\ shist' = NoSearchHist
    /\ UNCHANGED <<dataVars, embeddings, nextId, edits, run, hist, lastOk>>

-----------------------------------------------------------------------------
(* bulk_import_contacts(p_user_id, p_contacts) *)

\* the rows of public.contacts: those of the initial state and those imported
ContactRows(rows) == {contacts[c] : c \in DOMAIN contacts} \cup Range(rows)

\* ContactExists, were the rows inserted by the call in progress not seen
ContactExistsBeforeCall(rows, p_user_id, v_contact) ==
    \E c \in ContactRows(imported) :
        /\ c.user_id = p_user_id
        /\ c.deleted_at = NULL
        /\ \/ c.phone_number # NULL /\ c.phone_number = v_contact.phone_number
           \/ c.email # NULL /\ c.email = v_contact.email

\* IF EXISTS (SELECT 1 FROM public.contacts WHERE ...)
ContactExists(rows, p_user_id, v_contact) ==
    \E c \in ContactRows(rows) :
        /\ c.user_id = p_user_id
        /\ c.deleted_at = NULL
        /\ \/ c.phone_number # NULL /\ c.phone_number = v_contact.phone_number
           \/ c.email # NULL /\ c.email = v_contact.email

\* CONSTRAINT contact_has_name CHECK (first_name IS NOT NULL AND ...)
ContactHasName(v_contact) ==
    v_contact.first_name # NULL /\ v_contact.first_name # <<>>

\* INSERT INTO public.contacts (...) VALUES (...)
InsertedContact(p_user_id, v_contact) ==
    [user_id |-> p_user_id, first_name |-> v_contact.first_name,
     phone_number |-> v_contact.phone_number, email |-> v_contact.email,
     deleted_at |-> NULL]

\* FOR v_contact IN SELECT * FROM jsonb_array_elements(p_contacts) LOOP
RECURSIVE ImportLoop(_, _, _)
ImportLoop(p_user_id, elements, acc) ==
    IF elements = <<>> THEN acc
    ELSE LET v_contact == Head(elements)
             next ==
                 IF ContactExists(acc.rows, p_user_id, v_contact)
                 THEN [acc EXCEPT !.v_skipped = @ + 1]
                 ELSE IF ~ContactHasName(v_contact)
                 THEN [acc EXCEPT !.v_errors =
                          Append(@, [contact |-> v_contact, error |-> <<"23514">>])]
                 ELSE [acc EXCEPT !.rows = Append(@, InsertedContact(p_user_id, v_contact)),
                                  !.v_imported = @ + 1]
         IN  ImportLoop(p_user_id, Tail(elements), next)

bulk_import_contacts(p_user_id, p_contacts) ==
    ImportLoop(p_user_id, p_contacts,
               [rows |-> imported, v_imported |-> 0, v_skipped |-> 0, v_errors |-> <<>>])

\* the elements p_contacts is made of
ImportElements ==
    {[first_name |-> <<"a">>, phone_number |-> <<"p1">>, email |-> NULL],
     [first_name |-> <<"a">>, phone_number |-> NULL, email |-> <<"e1">>],
     [first_name |-> <<"a">>, phone_number |-> <<"p2">>, email |-> NULL],
     [first_name |-> NULL, phone_number |-> <<"p1">>, email |-> NULL],
     [first_name |-> NULL, phone_number |-> NULL, email |-> NULL]}

ImportInputs == UNION {[1..n -> ImportElements] : n \in 0..MaxImport}

\* supabase.rpc('bulk_import_contacts', { p_user_id, p_contacts })
BulkImport ==
    /\ imp.pc = "idle"
    /\ \E p_user_id \in {"uA", "uB"}, p_contacts \in ImportInputs :
        LET out == bulk_import_contacts(p_user_id, p_contacts)
        IN  /\ imported' = out.rows
            /\ imp' = [pc |-> "done",
                       p_user_id |-> p_user_id, p_contacts |-> p_contacts,
                       before |-> Len(imported), success |-> TRUE,
                       imported_count |-> out.v_imported,
                       skipped_count |-> out.v_skipped, errors |-> out.v_errors]
    /\ UNCHANGED <<dataVars, embeddings, nextId, edits, run, hist, search, shist, lastOk>>

\* the result has been returned to the caller; the contacts are in use
ImportReturn ==
    /\ imp.pc = "done"
    /\ imp' = [NoImport EXCEPT !.pc = "returned"]
    /\ UNCHANGED <<dataVars, embeddings, nextId, edits, run, hist, search, shist,
                   lastOk, imported>>

\* UPDATE contacts SET deleted_at = NOW(), of an imported contact
SoftDeleteImported(k) ==
    /\ imported[k].deleted_at = NULL
    /\ imported' = [imported EXCEPT ![k].deleted_at = <<"t">>]
    /\ edits < MaxEdits
    /\ edits' = edits + 1
    /\ UNCHANGED <<dataVars, embeddings, nextId, run, hist, search, shist, lastOk, imp>>

-----------------------------------------------------------------------------
(* ai-chat: serve handler *)

\* contact_id of a general query: contactId || null
NoContact == "null"

\* the values the request body may carry as message
ChatMessages == {NULL, <<>>, <<"a">>, <<" ">>}

\* the model's answers
Replies == {<<"x">>, <<"y">>}

\* trim(text)
Trim(text) == SelectSeq(text, LAMBDA ch : ch # " ")

\* the last n elements of a sequence
LastN(rows, n) == SubSeq(rows, Len(rows) - Min(n, Len(rows)) + 1, Len(rows))

Exchange(row) == [user_message |-> row.user_message, ai_response |-> row.ai_response]

\* .select('user_message, ai_response').eq('user_id', userId)
\* .order('created_at', { ascending: false }).limit(5), then history.reverse()
RecentHistory(userId) ==
    LET own == SelectSeq(conversations, LAMBDA row : row.user_id = userId)
        newestFirst == SubSeq(Reverse(own), 1, Min(HistoryLimit, Len(own)))
        oldestFirst == Reverse(newestFirst)
    IN  [i \in 1..Len(oldestFirst) |-> Exchange(oldestFirst[i])]

\* the constraints of ai_conversation_history the new row must meet
Storable(row) ==
    /\ row.contact_id = NoContact \/ row.contact_id \in DOMAIN contacts
    /\ Trim(row.user_message) # <<>>
    /\ Trim(row.ai_response) # <<>>

ChatRejected ==
    /\ chat.status = 0
    /\ \E method \in Methods, authHeader \in Headers, bodyOk \in BOOLEAN :
        /\ chat' =
             IF method # "POST"
             THEN [NoChat EXCEPT !.status = 405, !.error = <<"Method not allowed">>]
             ELSE IF authHeader = Omitted
             THEN [NoChat EXCEPT !.status = 401, !.error = <<"Missing authorization">>]
             ELSE IF GetUser(authHeader) = NoUser
             THEN [NoChat EXCEPT !.status = 401, !.error = <<"Unauthorized">>]
             ELSE [NoChat EXCEPT !.status = 500, !.error = <<"Unexpected token">>]
        /\ (method = "POST" /\ authHeader # Omitted /\ GetUser(authHeader) # NoUser)
             => ~bodyOk
    /\ chist' = NoChatHist
    /\ UNCHANGED <<dataVars, embeddings, nextId, edits, run, hist, search, shist,
                   lastOk, conversations>>

ChatRequest ==
    /\ chat.status = 0
    /\ Len(conversations) < MaxStored
    /\ \E authHeader \in Tokens, message \in ChatMessages,
          contactId \in {Omitted, UnknownId},
          responseOk \in BOOLEAN, aiResponse \in Replies, insertOk \in BOOLEAN :
        LET userId == GetUser(authHeader)
            h == [NoChatHist EXCEPT !.userId = userId, !.message = message,
                                    !.contactId = contactId,
                                    !.before = Len(conversations)]
            row == [user_id |-> userId,
                    contact_id |-> IF contactId = Omitted THEN NoContact ELSE contactId,
                    user_message |-> message,
                    ai_response |-> aiResponse]
        IN  /\ userId # NoUser
            /\ IF message = NULL \/ message = <<>> THEN
                   /\ responseOk /\ insertOk /\ aiResponse = <<"x">>
                   /\ chat' = [NoChat EXCEPT !.status = 400,
                                             !.error = <<"Message is required">>]
                   /\ chist' = h
                   /\ UNCHANGED conversations
               ELSE IF ~responseOk THEN
                   /\ insertOk /\ aiResponse = <<"x">>
                   /\ chat' = [NoChat EXCEPT !.status = 500,
                                             !.error = <<"OpenAI API error">>]
                   /\ chist' = [h EXCEPT !.sent = RecentHistory(userId)]
                   /\ UNCHANGED conversations
               ELSE
                   /\ conversations' = IF insertOk /\ Storable(row)
                                       THEN Append(conversations, row)
                                       ELSE conversations
                   /\ chat' = [status |-> 200, success |-> TRUE,
                               response |-> aiResponse, error |-> NULL]
                   /\ chist' = [h EXCEPT !.sent = RecentHistory(userId)]
    /\ UNCHANGED <<dataVars, embeddings, nextId, edits, run, hist, search, shist, lastOk>>

\* the response has been delivered
ChatReset ==
    /\ chat.status # 0
    /\ chat' = NoChat
    /\ chist' = NoChatHist
    /\ UNCHANGED <<dataVars, embeddings, nextId, edits, run, hist, search, shist,
                   lastOk, conversations>>

-----------------------------------------------------------------------------
(* Specifications *)

\* history: the last request that ran to its end with no failure, no error
\* and nothing changing under it, while nothing has changed since
Track ==
    lastRun' =
        IF \E r \in Runs : run[r].pc # "done" /\ run'[r].pc = "done"
        THEN LET r == CHOOSE q \in Runs : run[q].pc # "done" /\ run'[q].pc = "done"
             IN  IF /\ run'[r].status = 200
                    /\ run'[r].results.errors = <<>>
                    /\ hist'[r].faults = {}
                    /\ ~hist'[r].disturbed
                 THEN [valid |-> TRUE, ids |-> Range(run'[r].ids)]
                 ELSE NoLastRun
        ELSE IF embeddings' # embeddings \/ edits' # edits
        THEN NoLastRun
        ELSE lastRun

\* the histories a specification does not keep
Untracked == UNCHANGED <<lastRun, asked, others>>

TrackLast == Track /\ UNCHANGED <<asked, others>>

\* generate-embeddings requests served one at a time, the data changing
\* under and between them
NextSeq ==
    \/ RejectedRequest(1) /\ TrackLast
    \/ SingleRequest(1) /\ TrackLast
    \/ SweepRequest(1) /\ TrackLast
    \/ Compose(1) /\ TrackLast
    \/ Lookup(1) /\ TrackLast
    \/ Embed(1) /\ TrackLast
    \/ UpsertStep(1) /\ TrackLast
    \/ Reset(1) /\ TrackLast
    \/ \E c \in ContactIds : UpdateCompany(c) /\ TrackLast
    \/ \E c \in ContactIds : SoftDelete(c) /\ TrackLast

SpecSeq == Init /\ [][NextSeq]_vars

\* a sweep and a single-contact request that overlap
NextConc ==
    \/ SweepRequest(1) /\ Untracked
    \/ SingleRequest(2) /\ Untracked
    \/ \E r \in Runs : Compose(r) /\ Untracked
    \/ \E r \in Runs : Lookup(r) /\ Untracked
    \/ \E r \in Runs : Embed(r) /\ Untracked
    \/ \E r \in Runs : UpsertStep(r) /\ Untracked
    \/ \E r \in Runs : Reset(r) /\ Untracked

SpecConc == Init /\ [][NextConc]_vars

\* a request of either function is served once the response to the one
\* before it has been delivered
NoSearchPending == search.status = 0

SearchTurn == search.status = 0 /\ run[1].pc = "idle"

NextSearch ==
    \/ NoSearchPending /\ SingleRequest(1) /\ Untracked
    \/ NoSearchPending /\ SweepRequest(1) /\ Untracked
    \/ NoSearchPending /\ Compose(1) /\ Untracked
    \/ NoSearchPending /\ Lookup(1) /\ Untracked
    \/ NoSearchPending /\ Embed(1) /\ Untracked
    \/ NoSearchPending /\ UpsertStep(1) /\ Untracked
    \/ NoSearchPending /\ Reset(1) /\ Untracked
    \/ \E c \in ContactIds : NoSearchPending /\ UpdateCompany(c) /\ Untracked
    \/ \E c \in ContactIds : NoSearchPending /\ SoftDelete(c) /\ Untracked
    \/ SearchTurn /\ SearchRejected /\ Untracked
    \/ SearchTurn /\ SearchRequest /\ Untracked
    \/ SearchReset /\ Untracked

SpecSearch == Init /\ [][NextSearch]_vars

\* generate-embeddings with every call of the loop able to fail; notes are
\* added between requests (SpecSeq has the edits that arrive during a run)
AskedOf(method, authHeader, bodyOk, batchSize) ==
    asked' = [method |-> method, auth |-> authHeader, bodyOk |-> bodyOk,
              batchSize |-> batchSize]

NextBatch ==
    \/ \E method \in Methods, authHeader \in Headers, bodyOk \in BOOLEAN :
         /\ RejectedWith(1, method, authHeader, bodyOk)
         /\ AskedOf(method, authHeader, bodyOk, 0)
         /\ UNCHANGED <<lastRun, others>>
    \/ \E authHeader \in Tokens, contactId \in RequestIds :
         /\ SingleWith(1, authHeader, contactId)
         /\ AskedOf("POST", authHeader, TRUE, 0)
         /\ UNCHANGED <<lastRun, others>>
    \/ \E authHeader \in Tokens, batchSize \in BatchSizes :
         /\ SweepWith(1, authHeader, batchSize)
         /\ AskedOf("POST", authHeader, TRUE, batchSize)
         /\ UNCHANGED <<lastRun, others>>
    \/ \E authHeader \in Tokens, batchSize \in BatchSizes :
         /\ SelectFails(1, authHeader, batchSize)
         /\ AskedOf("POST", authHeader, TRUE, batchSize)
         /\ UNCHANGED <<lastRun, others>>
    \/ Compose(1) /\ Untracked
    \/ ComposeFails(1) /\ Untracked
    \/ HashFails(1) /\ Untracked
    \/ Lookup(1) /\ Untracked
    \/ LookupFails(1) /\ Untracked
    \/ Embed(1) /\ Untracked
    \/ UpsertStep(1) /\ Untracked
    \/ Reset(1) /\ asked' = NoAsked /\ UNCHANGED <<lastRun, others>>
    \/ \E c \in ContactIds : run[1].pc = "idle" /\ AddNote(c) /\ Untracked

SpecBatch == Init /\ [][NextBatch]_vars

\* both functions, every request with its method and Authorization header
\* on record; a search may arrive while the response of generate-embeddings
\* is being delivered
AuthSearchTurn == search.status = 0 /\ ~Active(1)

NextAuth ==
    \/ \E method \in Methods, authHeader \in Headers, bodyOk \in BOOLEAN :
         /\ NoSearchPending
         /\ RejectedWith(1, method, authHeader, bodyOk)
         /\ AskedOf(method, authHeader, bodyOk, 0)
         /\ UNCHANGED <<lastRun, others>>
    \/ \E authHeader \in Tokens, contactId \in RequestIds :
         /\ NoSearchPending
         /\ SingleWith(1, authHeader, contactId)
         /\ AskedOf("POST", authHeader, TRUE, 0)
         /\ UNCHANGED <<lastRun, others>>
    \/ \E authHeader \in Tokens, batchSize \in BatchSizes :
         /\ NoSearchPending
         /\ SweepWith(1, authHeader, batchSize)
         /\ AskedOf("POST", authHeader, TRUE, batchSize)
         /\ UNCHANGED <<lastRun, others>>
    \/ NoSearchPending /\ Compose(1) /\ Untracked
    \/ NoSearchPending /\ Lookup(1) /\ Untracked
    \/ NoSearchPending /\ Embed(1) /\ Untracked
    \/ NoSearchPending /\ UpsertStep(1) /\ Untracked
    \/ NoSearchPending /\ Reset(1) /\ asked' = NoAsked /\ UNCHANGED <<lastRun, others>>
    \/ AuthSearchTurn /\ SearchRejected /\ Untracked
    \/ AuthSearchTurn /\ SearchRequest /\ Untracked
    \/ SearchReset /\ Untracked

SpecAuth == Init /\ [][NextAuth]_vars

\* generate-embeddings requests that may be cut off at any await
NextCut ==
    \/ SingleRequest(1) /\ Untracked
    \/ SweepRequest(1) /\ Untracked
    \/ Compose(1) /\ Untracked
    \/ Lookup(1) /\ Untracked
    \/ Embed(1) /\ Untracked
    \/ UpsertStep(1) /\ Untracked
    \/ CutOff(1) /\ Untracked
    \/ Reset(1) /\ Untracked

SpecCut == InitLong /\ [][NextCut]_vars

\* the contacts two overlapping requests are sent for
RaceIds == {"c1", "c2"}

\* two single-contact requests of uA that overlap, the company of the
\* contacts changing under them
NextRace ==
    \/ \E r \in Runs, contactId \in RaceIds :
         SingleWith(r, "tokA", contactId) /\ Untracked
    \/ \E r \in Runs : Compose(r) /\ Untracked
    \/ \E r \in Runs : Lookup(r) /\ Untracked
    \/ \E r \in Runs : Embed(r) /\ Untracked
    \/ \E r \in Runs : UpsertStep(r) /\ Untracked
    \/ \E r \in Runs : Reset(r) /\ Untracked
    \/ \E c \in RaceIds : UpdateCompany(c) /\ Untracked

SpecRace == InitLong /\ [][NextRace]_vars

\* one bulk import, with contacts soft-deleted before and after it
NextImport ==
    \/ BulkImport /\ UNCHANGED <<lastRun, asked, chatVars>>
    \/ ImportReturn /\ UNCHANGED <<lastRun, asked, chatVars>>
    \/ \E c \in ContactIds :
         imp.pc # "done" /\ SoftDelete(c) /\ Untracked
    \/ \E k \in DOMAIN imported :
         imp.pc # "done" /\ SoftDeleteImported(k) /\ UNCHANGED <<lastRun, asked, chatVars>>

SpecImport == Init /\ [][NextImport]_vars

\* ai-chat requests, one after the other
NextChat ==
    \/ ChatRejected /\ UNCHANGED <<lastRun, asked, importVars>>
    \/ ChatRequest /\ UNCHANGED <<lastRun, asked, importVars>>
    \/ ChatReset /\ UNCHANGED <<lastRun, asked, importVars>>

SpecChat == Init /\ [][NextChat]_vars

-----------------------------------------------------------------------------
(* Properties *)

Done(r) == run[r].pc = "done" /\ run[r].status = 200

RowsOf(cid) == {ce \in embeddings : ce.contact_id = cid}

ErrorIds(r) == {run[r].results.errors[i].cid : i \in DOMAIN run[r].results.errors}

ErrorsFor(r, cid) ==
    {i \in DOMAIN run[r].results.errors : run[r].results.errors[i].cid = cid}

ProviderFailed(r) == {cid \in Range(run[r].ids) : <<cid, "provider">> \in hist[r].faults}

StoreFailed(r) == {cid \in Range(run[r].ids) : <<cid, "upsert">> \in hist[r].faults}

\* C1: every embedding record's user_id is the user_id of the contact it
\* references, whoever ran the batch and whether or not a contactId was given.
ScopeEqualsOwner ==
    \A ce \in embeddings :
        /\ ce.contact_id \in DOMAIN contacts
        /\ ce.user_id = contacts[ce.contact_id].user_id

\* C2: in a run whose n contacts all need an embedding and in which the
\* provider fails exactly for the contacts of F and the store does not fail,
\* processed = n - |F|, errors holds one entry per contact of F and none for
\* another contact, and every contact outside F has an upserted record.
PartialFailureIsolation ==
    \A r \in Runs :
        (/\ Done(r)
         /\ hist[r].needed = Range(run[r].ids)
         /\ StoreFailed(r) = {})
        => /\ run[r].results.processed = Len(run[r].ids) - Cardinality(ProviderFailed(r))
           /\ \A cid \in ProviderFailed(r) : Cardinality(ErrorsFor(r, cid)) = 1
           /\ ErrorIds(r) \subseteq ProviderFailed(r)
           /\ \A cid \in Range(run[r].ids) \ ProviderFailed(r) :
                cid \in hist[r].written /\ RowsOf(cid) # {}

\* C2, for the runs that meet no contact with a stored record
PartialFailureIsolationOfNewContacts ==
    \A r \in Runs :
        (/\ Done(r)
         /\ hist[r].needed = Range(run[r].ids)
         /\ hist[r].stale = {}
         /\ StoreFailed(r) = {})
        => /\ run[r].results.processed = Len(run[r].ids) - Cardinality(ProviderFailed(r))
           /\ \A cid \in ProviderFailed(r) : Cardinality(ErrorsFor(r, cid)) = 1
           /\ ErrorIds(r) \subseteq ProviderFailed(r)
           /\ \A cid \in Range(run[r].ids) \ ProviderFailed(r) :
                cid \in hist[r].written /\ RowsOf(cid) # {}

FingerprintSensitivity ==
    \A r \in Runs :
        (/\ Done(r)
         /\ ~hist[r].disturbed
         /\ hist[r].faults = {})
        => /\ run[r].results.updated = Cardinality(hist[r].stale)
           /\ \A cid \in hist[r].stale :
                /\ cid \in Range(hist[r].calls)
                /\ cid \notin ErrorIds(r)
                /\ \E ce \in RowsOf(cid) :
                     /\ ce.content_hash = generateHash(generate_embedding_content(cid))
                     /\ ce.embedding = ProviderVector(generate_embedding_content(cid))

\* C5: at most one embedding record exists per contact id in every state, and
\* a contact for which an upsert has succeeded has exactly one, also when two
\* overlapping runs upsert for the same contact.
OneRecordPerEntity ==
    /\ \A cid \in RequestIds : Cardinality(RowsOf(cid)) <= 1
    /\ \A r \in Runs : \A cid \in hist[r].written : Cardinality(RowsOf(cid)) = 1

\* two overlapping runs found no record for the same contact and both sent
\* their upsert: one wrote the record, the other was refused
OneRecordPerEntityWitness ==
    \E r, q \in Runs : \E cid \in ContactIds :
        /\ r # q
        /\ Done(r) /\ Done(q)
        /\ cid \in hist[r].written
        /\ cid \in hist[q].needed \ hist[q].stale
        /\ cid \in ErrorIds(q) \ (ProviderFailed(q) \cup StoreFailed(q))
        /\ Cardinality(RowsOf(cid)) = 1

\* C6: after any number of upserts against one contact id, exactly one
\* embedding record exists for it and it holds the vector, fingerprint and
\* source text of the last upsert that succeeded.
LastSuccessfulUpsertStored ==
    \A cid \in RequestIds :
        lastOk[cid] # NoValues
        => /\ Cardinality(RowsOf(cid)) = 1
           /\ \A ce \in RowsOf(cid) :
                /\ ce.embedding = lastOk[cid].embedding
                /\ ce.content_hash = lastOk[cid].content_hash
                /\ ce.source_text = lastOk[cid].source_text
                /\ ce.user_id = lastOk[cid].user_id

\* a later upsert against a contact whose record is stored, with another
\* fingerprint than the stored one
LastSuccessfulUpsertStoredWitness ==
    \E r \in Runs : \E cid \in ContactIds :
        /\ Done(r)
        /\ cid \in hist[r].stale
        /\ cid \in ErrorIds(r) \ (ProviderFailed(r) \cup StoreFailed(r))
        /\ lastOk[cid] # NoValues
        /\ Cardinality(RowsOf(cid)) = 1

Answered == search.status = 200 /\ search.success

QueryVector == ProviderVector(shist.query.value)

\* the caller's records of contacts that are not soft-deleted
Candidates ==
    {ce \in embeddings :
        /\ ce.user_id = shist.userId
        /\ ce.contact_id \in DOMAIN contacts
        /\ contacts[ce.contact_id].deleted_at = NULL}

\* C7: a search under scope A returns no match backed by an embedding record
\* of another scope, for every query, limit and threshold.
ScopeIsolation ==
    Answered =>
        /\ Len(shist.rows) = Len(search.results)
        /\ \A i \in DOMAIN search.results :
             /\ shist.rows[i].contact_id = search.results[i].contact_id
             /\ shist.rows[i] \in embeddings
             /\ shist.rows[i].user_id = shist.userId

\* a search that returns a record of the caller while a record of another
\* user is closer to the query than any of the caller's
ScopeIsolationWitness ==
    /\ Answered
    /\ search.results # <<>>
    /\ \E other \in embeddings :
         /\ other.user_id # shist.userId
         /\ \A ce \in Candidates :
              Similarity(other, QueryVector) > Similarity(ce, QueryVector)

\* C8: no returned match has a similarity below the threshold of the request,
\* also when fewer than limit matches are returned for that.
ThresholdExclusion ==
    Answered =>
        \A i \in DOMAIN search.results :
            /\ search.results[i].similarity >= shist.threshold
            /\ search.results[i].similarity = Similarity(shist.rows[i], QueryVector)

\* a search that returns fewer than limit matches because a record of the
\* caller scores below the threshold
ThresholdExclusionWitness ==
    /\ Answered
    /\ Len(search.results) < shist.limit
    /\ search.results # <<>>
    /\ \E ce \in Candidates : Similarity(ce, QueryVector) < shist.threshold

\* the query is the empty string, omitted, or not a string
EmptyQuery ==
    \/ shist.query.type = "undefined"
    \/ shist.query.type # "string"
    \/ shist.query.value = <<>>

\* C9: a search of an authenticated caller whose query is the empty string,
\* omitted or not a string is answered 400, with no provider call and no
\* similarity query.
EmptyQueryRejection ==
    (search.status # 0 /\ shist.userId # NoUser /\ EmptyQuery)
    => /\ search.status = 400
       /\ ~search.success
       /\ search.error = <<"Query is required">>
       /\ search.results = <<>>
       /\ shist.providerCalls = 0
       /\ shist.storeQueries = 0

\* the empty string is rejected
EmptyQueryRejectionWitness ==
    /\ search.status = 400
    /\ shist.userId # NoUser
    /\ shist.query = [type |-> "string", value |-> <<>>]

\* C10: a valid search in which provider and store do not fail is answered
\* with success; when no record of the caller reaches the threshold the
\* results are empty and count is 0, with no error; and count is the length
\* of results in every successful response.
EmptyResultSuccess ==
    /\ search.success => search.count = Len(search.results)
    /\ (/\ search.status \notin {0, 500}
        /\ shist.userId # NoUser
        /\ ~EmptyQuery)
       => /\ Answered
          /\ search.error = NULL
          /\ (\A ce \in Candidates : Similarity(ce, QueryVector) < shist.threshold)
             => search.results = <<>> /\ search.count = 0

\* the best record of the caller scores 0.5 under a threshold of 0.7
EmptyResultSuccessWitness ==
    /\ Answered
    /\ search.results = <<>>
    /\ search.count = 0
    /\ shist.limit > 0
    /\ shist.threshold = DefaultThreshold
    /\ \E ce \in Candidates : Similarity(ce, QueryVector) = 500
    /\ \A ce \in Candidates : Similarity(ce, QueryVector) <= 500

\* the request being served passed the method, token and body checks
Accepted(a) ==
    /\ a.method = "POST"
    /\ a.auth # Omitted
    /\ GetUser(a.auth) # NoUser
    /\ a.bodyOk

FaultIds(r) == {f[1] : f \in {g \in hist[r].faults : g[2] # "select"}}

\* C11: every generate-embeddings request with method POST, a valid token and
\* a well-formed body is answered 200 with success and the counters, whatever
\* failed for its contacts, and every contact for which a call failed has an
\* entry in results.errors.
BatchAlwaysSucceeds ==
    (run[1].pc = "done" /\ Accepted(asked))
    => /\ run[1].status = 200
       /\ FaultIds(1) \subseteq ErrorIds(1)

\* C12: a sweep (no contactId) that ends a series of sweeps by returning
\* processed < batchSize, with no call failing and no content ever changed,
\* leaves every non-deleted contact of the caller that has content with an
\* embedding record whose fingerprint is that of its content.
FullCoverageBySweeps ==
    (/\ Done(1)
     /\ asked.batchSize > 0
     /\ hist[1].faults = {}
     /\ edits = 0
     /\ run[1].results.errors = <<>>
     /\ run[1].results.processed < asked.batchSize)
    => \A c \in DOMAIN contacts :
         (/\ contacts[c].user_id = run[1].userId
          /\ contacts[c].deleted_at = NULL
          /\ generate_embedding_content(c) # <<>>)
         => \E ce \in RowsOf(c) :
              ce.content_hash = generateHash(generate_embedding_content(c))

\* the contact a single-contact request names does not exist, is soft-deleted
\* or belongs to another user than the caller
NotTheCallers(r, cid) ==
    \/ cid \notin DOMAIN contacts
    \/ contacts[cid].deleted_at # NULL
    \/ contacts[cid].user_id # run[r].userId

\* C14: a run given the id of a contact that does not exist, is soft-deleted
\* or is not the caller's counts it as skipped, calls the provider for none
\* and writes no embedding record.
ForeignContactSkipped ==
    (/\ Done(1)
     /\ Len(run[1].ids) = 1
     /\ ~hist[1].disturbed
     /\ hist[1].faults = {}
     /\ NotTheCallers(1, run[1].ids[1]))
    => /\ run[1].results.skipped = 1
       /\ hist[1].calls = <<>>
       /\ ~hist[1].tableChanged

\* a step of generate-embeddings in which a call made for a contact fails
FailingStep == \E f \in hist'[1].faults \ hist[1].faults : f[2] # "select"

\* the loop is at the contact it was at, or at the next one, or has ended
\* with the 200 response after the last contact
LoopGoesOn ==
    /\ run'[1].ids = run[1].ids
    /\ \/ run'[1].pc = "embed" /\ run'[1].i = run[1].i
       \/ run'[1].pc = "compose" /\ run'[1].i = run[1].i + 1
       \/ /\ run'[1].pc = "done" /\ run'[1].status = 200
          /\ run[1].i = Len(run[1].ids)
          /\ run'[1].results.processed + run'[1].results.skipped
               + Len(run'[1].results.errors) <= Len(run[1].ids)

\* a request is turned away: nothing is composed, embedded or written
TurnedAway ==
    /\ run'[1].pc = "done"
    /\ run'[1].status \in {405, 401, 500}
    /\ run'[1].ids = <<>>
    /\ run'[1].results = ZeroResults
    /\ hist'[1] = NoHist
    /\ embeddings' = embeddings

\* C20: a step of the loop in which a call fails (composition, hashing,
\* lookup, provider, upsert) leaves the loop at the same or the next contact
\* or at its 200 response, and a request that fails the method, token or
\* body check is answered without any contact composed, embedded or upserted.
NoErrorEscapesLoop ==
    [][/\ FailingStep => LoopGoesOn
       /\ (run[1].pc = "idle" /\ run'[1].pc # "idle" /\ ~Accepted(asked')) => TurnedAway
       /\ (run[1].pc = "idle" /\ run'[1].pc # "idle" /\ Accepted(asked'))
            => (run'[1].pc = "done" => run'[1].status = 200)]_vars

\* a run of two contacts: a call failed for the first and the second got
\* its record
NoErrorEscapesLoopWitness ==
    /\ Done(1)
    /\ Len(run[1].ids) = 2
    /\ run[1].ids[1] \in FaultIds(1)
    /\ run[1].ids[2] \in hist[1].written
    /\ run[1].results.created = 1

\* C17: a search in which the embedding provider or the similarity query
\* fails is answered 500 with the failure's message, never with success and
\* empty or partial results.
SearchFailureIsFatal ==
    (search.status # 0 /\ shist.fault # "none")
    => /\ search.status = 500
       /\ ~search.success
       /\ search.results = <<>>
       /\ search.error = IF shist.fault = "provider"
                         THEN <<"OpenAI API error">> ELSE <<"Search error">>

\* the similarity query fails while a record of the caller matches the query
SearchFailureIsFatalWitness ==
    /\ search.status = 500
    /\ shist.fault = "store"
    /\ \E ce \in Candidates : Similarity(ce, QueryVector) >= shist.threshold

\* C15: no returned match belongs to a soft-deleted contact, also when a
\* record of that contact is stored for the caller and clears the threshold.
NoSoftDeletedMatch ==
    Answered =>
        \A i \in DOMAIN search.results :
            /\ shist.rows[i].contact_id = search.results[i].contact_id
            /\ contacts[search.results[i].contact_id].deleted_at = NULL

\* a record of the caller clears the threshold, its contact is soft-deleted
\* and the limit leaves room for it
NoSoftDeletedMatchWitness ==
    /\ Answered
    /\ Len(search.results) < shist.limit
    /\ \E ce \in embeddings :
         /\ ce.user_id = shist.userId
         /\ contacts[ce.contact_id].deleted_at # NULL
         /\ Similarity(ce, QueryVector) >= shist.threshold

\* the caller's records that qualify for the search answered
Qualified == {ce \in Candidates : Similarity(ce, QueryVector) >= shist.threshold}

\* the matches come in non-increasing order of similarity, at most limit of
\* them, each one a different qualifying record of the caller
OrderedWithinLimit ==
    /\ Len(search.results) <= shist.limit
    /\ \A i \in DOMAIN search.results :
         /\ shist.rows[i] \in Qualified
         /\ search.results[i].similarity = Similarity(shist.rows[i], QueryVector)
    /\ \A i, j \in DOMAIN search.results :
         /\ i < j => search.results[i].similarity >= search.results[j].similarity
         /\ i # j => shist.rows[i] # shist.rows[j]

\* C16: the matches come in non-increasing order of similarity, at most limit
\* of them, and they are the limit most similar of the caller's qualifying
\* records: as many as the limit allows, and no qualifying record left out is
\* strictly more similar than one returned.
SimilarityRanking ==
    Answered =>
        /\ OrderedWithinLimit
        /\ Len(search.results) = Min(shist.limit, Cardinality(Qualified))
        /\ \A ce \in Qualified \ Range(shist.rows) : \A i \in DOMAIN search.results :
             Similarity(ce, QueryVector) <= search.results[i].similarity

\* C16, amended: the matches come in non-increasing order of similarity, at
\* most limit of them, each a different qualifying record of the caller.
SimilarityOrder == Answered => OrderedWithinLimit

\* two records of the caller qualify with different similarities and both
\* are returned
SimilarityOrderWitness ==
    /\ Answered
    /\ Len(search.results) = 2
    /\ search.results[1].similarity > search.results[2].similarity

\* no Authorization header, or a token that is no user's session
Unresolvable(authHeader) == authHeader = Omitted \/ authHeader \notin {"tokA", "tokB"}

\* generate-embeddings takes up a POST request that carries no usable token
BatchUnauthorized ==
    /\ run[1].pc = "idle" /\ run'[1].pc # "idle"
    /\ asked'.method = "POST" /\ Unresolvable(asked'.auth)

\* semantic-search takes up a POST request that carries no usable token
SearchUnauthorized ==
    /\ search.status = 0 /\ search'.status # 0
    /\ shist'.method = "POST" /\ Unresolvable(shist'.auth)

\* C13: a POST request to generate-embeddings or to semantic-search without
\* an Authorization header, or with a token that resolves to no user, is
\* answered 401 in the step that takes it up: nothing is composed, the
\* provider is not called, no similarity query is made and no embedding
\* record is written.
AuthRejection ==
    [][/\ BatchUnauthorized
            => /\ run'[1].pc = "done" /\ run'[1].status = 401
               /\ run'[1].ids = <<>> /\ run'[1].results = ZeroResults
               /\ hist'[1] = NoHist
               /\ embeddings' = embeddings
       /\ SearchUnauthorized
            => /\ search'.status = 401 /\ ~search'.success
               /\ search'.results = <<>>
               /\ shist'.providerCalls = 0 /\ shist'.storeQueries = 0
               /\ embeddings' = embeddings]_vars

\* a request without header was turned away by generate-embeddings and one
\* with an unknown token by semantic-search, while records are stored
AuthRejectionWitness ==
    /\ run[1].pc = "done" /\ run[1].status = 401 /\ asked.auth = Omitted
    /\ search.status = 401 /\ shist.auth = "bad"
    /\ embeddings # {}

\* the rows the import call just answered has inserted
NewRows == SubSeq(imported, imp.before + 1, Len(imported))

\* two contacts share a phone number or an email address
SamePhoneOrEmail(x, y) ==
    \/ x.phone_number # NULL /\ x.phone_number = y.phone_number
    \/ x.email # NULL /\ x.email = y.email

\* C18: bulk_import_contacts inserts no contact whose phone number or email
\* is that of a non-deleted contact of the user, be it stored before the call
\* or inserted earlier in it; a failing insert is recorded and the elements
\* after it are still handled; and imported_count + skipped_count + the
\* number of errors is the number of elements, with success = TRUE.
ImportSkipsDuplicates ==
    imp.pc = "done" =>
        /\ imp.success
        /\ imp.imported_count + imp.skipped_count + Len(imp.errors) = Len(imp.p_contacts)
        /\ Len(NewRows) = imp.imported_count
        /\ \A i \in DOMAIN NewRows :
             /\ NewRows[i].user_id = imp.p_user_id
             /\ \A c \in DOMAIN contacts :
                  (contacts[c].user_id = imp.p_user_id /\ contacts[c].deleted_at = NULL)
                  => ~SamePhoneOrEmail(contacts[c], NewRows[i])
             /\ \A j \in DOMAIN NewRows : j < i => ~SamePhoneOrEmail(NewRows[j], NewRows[i])
        /\ \A e \in DOMAIN imp.errors : ~ContactHasName(imp.errors[e].contact)

\* a call whose first element fails to insert and whose next two elements
\* carry the same new phone number: one is inserted, the other skipped
ImportSkipsDuplicatesWitness ==
    /\ imp.pc = "done"
    /\ Len(imp.p_contacts) = 3
    /\ ~ContactHasName(imp.p_contacts[1])
    /\ imp.p_contacts[2] = imp.p_contacts[3]
    /\ Len(imp.errors) = 1
    /\ imp.imported_count = 1
    /\ imp.skipped_count = 1

ChatAnswered == chat.status = 200 /\ chat.success

\* the caller's rows that were stored when the request came in, oldest first
StoredBefore ==
    SelectSeq(SubSeq(conversations, 1, chist.before),
              LAMBDA row : row.user_id = chist.userId)

\* the exchanges sent to the model are the last HistoryLimit of the caller's
\* stored ones, oldest first
SentRecentHistory ==
    LET recent == LastN(StoredBefore, HistoryLimit)
    IN  /\ Len(chist.sent) <= HistoryLimit
        /\ chist.sent = [i \in 1..Len(recent) |-> Exchange(recent[i])]

\* C19: every ai-chat request answered with success: true has its message
\* and the answer stored as the caller's newest row of
\* ai_conversation_history, and the request was sent at most the 5 most
\* recent stored exchanges of the caller, oldest first.
ChatSavesConversation ==
    ChatAnswered =>
        /\ Len(conversations) = chist.before + 1
        /\ conversations[Len(conversations)].user_id = chist.userId
        /\ conversations[Len(conversations)].user_message = chist.message
        /\ conversations[Len(conversations)].ai_response = chat.response
        /\ SentRecentHistory

\* C19, the part about the history sent to the model
ChatSendsRecentHistory == chat.status \in {200, 500} => SentRecentHistory

\* a record is stored for the contact with the fingerprint given
StoredSame(cid, contentHash) == \E ce \in RowsOf(cid) : ce.content_hash = contentHash

\* the contact is counted as skipped: no provider call and no write
SkipsAtLookup ==
    /\ run'[1].results = Skipped(run[1].results)
    /\ run'[1].pc \in {"compose", "done"}
    /\ hist'[1].calls = hist[1].calls
    /\ embeddings' = embeddings

\* C21: for a contact with non-empty composed content the run skips the
\* embedding (no provider call, no upsert) exactly when a record is stored
\* for the contact with the fingerprint of the composed content; otherwise
\* it goes on to the provider, which is called once for the contact.
ChangeDetection ==
    [][/\ (run[1].pc = "lookup" /\ run'[1].pc # "lookup")
            => IF StoredSame(Cid(1), run[1].contentHash)
               THEN SkipsAtLookup
               ELSE run'[1].pc = "embed" /\ run'[1].i = run[1].i
       /\ (run[1].pc = "embed" /\ run'[1].pc # "embed")
            => hist'[1].calls = Append(hist[1].calls, Cid(1))]_vars

\* C22: a contact whose composed content is empty is counted as skipped in
\* the step that composes it: no error is recorded, the provider is not
\* called, the contact is not looked up and no record is written.
EmptyContentSkipped ==
    [][(/\ run[1].pc = "compose"
        /\ run'[1] # run[1]
        /\ generate_embedding_content(Cid(1)) = <<>>)
       => /\ run'[1].results = Skipped(run[1].results)
          /\ run'[1].pc \in {"compose", "done"}
          /\ hist'[1].calls = hist[1].calls
          /\ hist'[1].needed = hist[1].needed
          /\ embeddings' = embeddings]_vars

\* a request for an id that composes to nothing was answered while records
\* of other contacts are stored
EmptyContentSkippedWitness ==
    /\ Done(1)
    /\ Len(run[1].ids) = 1
    /\ generate_embedding_content(run[1].ids[1]) = <<>>
    /\ hist[1].faults = {}
    /\ run[1].results = Skipped(ZeroResults)
    /\ embeddings # {}

\* the upsert for the contact at hand is answered with an error
UpsertFails ==
    /\ run[1].pc = "upsert"
    /\ run'[1] # run[1]
    /\ Cid(1) \notin hist'[1].written

\* C23: when the upsert for a contact fails, an error entry naming the
\* contact is appended, processed, created, updated and skipped stay as they
\* were, no record is written, and the loop goes on with the next contact or,
\* after the last one, ends with the 200 response.
StoreErrorIsolation ==
    [][UpsertFails
       => /\ Len(run'[1].results.errors) = Len(run[1].results.errors) + 1
          /\ run'[1].results.errors[Len(run'[1].results.errors)].cid = Cid(1)
          /\ SubSeq(run'[1].results.errors, 1, Len(run[1].results.errors))
                = run[1].results.errors
          /\ run'[1].results.processed = run[1].results.processed
          /\ run'[1].results.created = run[1].results.created
          /\ run'[1].results.updated = run[1].results.updated
          /\ run'[1].results.skipped = run[1].results.skipped
          /\ embeddings' = embeddings
          /\ run'[1].ids = run[1].ids
          /\ IF run[1].i < Len(run[1].ids)
             THEN run'[1].pc = "compose" /\ run'[1].i = run[1].i + 1
             ELSE run'[1].pc = "done" /\ run'[1].status = 200]_vars

\* a run of two contacts: the store refused the upsert of the first, and the
\* second got its record and was counted
StoreErrorIsolationWitness ==
    /\ Done(1)
    /\ Len(run[1].ids) = 2
    /\ run[1].ids[1] \in StoreFailed(1)
    /\ ErrorIds(1) = {run[1].ids[1]}
    /\ run[1].ids[2] \in hist[1].written
    /\ RowsOf(run[1].ids[2]) # {}
    /\ run[1].results.processed = 1

\* the upsert for the contact at hand succeeds
UpsertSucceeds ==
    /\ run[1].pc = "upsert"
    /\ run'[1] # run[1]
    /\ Cid(1) \in hist'[1].written

\* C24: when the upsert for a contact succeeds, processed is incremented and
\* with it created if no record was stored for the contact before the write,
\* updated if one was; and at every point of a run created is the number of
\* records the run has added to the table.
CreateUpdateAccounting ==
    [][/\ UpsertSucceeds
            => LET existed == RowsOf(Cid(1)) # {}
               IN  /\ run'[1].results.processed = run[1].results.processed + 1
                   /\ run'[1].results.created =
                        run[1].results.created + (IF existed THEN 0 ELSE 1)
                   /\ run'[1].results.updated =
                        run[1].results.updated + (IF existed THEN 1 ELSE 0)
                   /\ run'[1].results.skipped = run[1].results.skipped
                   /\ run'[1].results.errors = run[1].results.errors
       /\ run'[1].results.created = hist'[1].added]_vars

\* a sweep over two contacts, one with a stored record of the same
\* fingerprint and one without a record, which the run created
CreateUpdateAccountingWitness ==
    /\ Done(1)
    /\ Len(run[1].ids) = 2
    /\ hist[1].faults = {}
    /\ run[1].results.created = 1
    /\ run[1].results.skipped = 1
    /\ hist[1].added = 1
    /\ \A cid \in Range(run[1].ids) : RowsOf(cid) # {}

\* the request in slot r was cut off
Cut(r) == run[r].pc = "done" /\ run[r].status = 0

\* the text a fingerprint was taken of (generateHash is one-to-one)
Hashed(ce) == Tail(ce.content_hash)

\* vector, fingerprint and source text of the record come from one text
Complete(ce) ==
    /\ ce.embedding = ProviderVector(Hashed(ce))
    /\ ce.source_text = SubSeq(Hashed(ce), 1, Min(SourceTextLen, Len(Hashed(ce))))

\* C25: while a run is under way and when it is cut off, no stored record is
\* removed or altered (the records of the contacts already processed stay as
\* upserted, those of the contacts not yet attempted as they were); the only
\* record a step adds is that of the contact at hand, in the upsert, and it
\* is complete; the step that cuts the run off changes no record.
NoRollbackOnCutOff ==
    [][Active(1)
       => /\ embeddings \subseteq embeddings'
          /\ \A ce \in embeddings' \ embeddings :
               /\ run[1].pc = "upsert"
               /\ ce.contact_id = Cid(1)
               /\ Complete(ce)
          /\ Cut(1)' => embeddings' = embeddings
          /\ \A k \in DOMAIN run[1].ids :
               k # run[1].i =>
                 {ce \in embeddings' : ce.contact_id = run[1].ids[k]} = RowsOf(run[1].ids[k])]_vars

\* a sweep over two contacts cut off between the provider's answer for the
\* second and its upsert: the first has its record, the second has none
NoRollbackOnCutOffWitness ==
    /\ Cut(1)
    /\ Len(run[1].ids) = 2
    /\ run[1].i = 2
    /\ run[1].embedding # NoVector
    /\ run[1].ids[1] \in hist[1].written
    /\ \E ce \in RowsOf(run[1].ids[1]) : Complete(ce)
    /\ RowsOf(run[1].ids[2]) = {}

\* the contacts the loop has finished with
Iterated(r) ==
    IF run[r].pc = "done" THEN Len(run[r].ids)
    ELSE IF run[r].pc = "idle" THEN 0
    ELSE run[r].i - 1

\* C26: at every point of a run processed = created + updated and
\* processed + skipped + the number of errors is the number of contacts the
\* loop has finished with, which at the 200 response is the number of
\* contacts of the run; no contact is both processed and in error, and each
\* contact in error has one entry.
CounterConsistency ==
    (run[1].pc = "done" => run[1].status = 200)
    => /\ run[1].results.processed = run[1].results.created + run[1].results.updated
       /\ run[1].results.processed + run[1].results.skipped
            + Len(run[1].results.errors) = Iterated(1)
       /\ run[1].results.processed = Cardinality(hist[1].written)
       /\ Len(run[1].results.errors) = Cardinality(ErrorIds(1))
       /\ ErrorIds(1) \cap hist[1].written = {}

\* a sweep over two contacts: one skipped for its unchanged fingerprint, one
\* in error after the provider failed
CounterConsistencyWitness ==
    /\ Done(1)
    /\ Len(run[1].ids) = 2
    /\ run[1].results.skipped = 1
    /\ Len(run[1].results.errors) = 1
    /\ ProviderFailed(1) # {}
    /\ FaultIds(1) = ProviderFailed(1)
    /\ run[1].results.processed = 0

\* C27: whatever runs and searches came before, every match a search
\* returns is a contact owned by the caller.
OwnerIsolation ==
    Answered =>
        \A i \in DOMAIN search.results :
            contacts[search.results[i].contact_id].user_id = shist.userId

\* C28: for two overlapping runs, the sum of created over the two is at most
\* the number of records the two have added to the table, and no contact is
\* counted as written by both.
NoDoubleCreate ==
    /\ run[1].results.created + run[2].results.created
         <= hist[1].added + hist[2].added
    /\ \A cid \in RequestIds : ~(cid \in hist[1].written /\ cid \in hist[2].written)

\* both runs looked the same contact up while it had no record and both sent
\* their upsert: the single-contact run created the record, the sweep got an
\* error for the contact
NoDoubleCreateWitness ==
    \E cid \in ContactIds :
        /\ Done(1) /\ Done(2)
        /\ cid \in hist[1].needed \ hist[1].stale
        /\ cid \in hist[2].needed \ hist[2].stale
        /\ cid \in Range(hist[1].calls) /\ cid \in Range(hist[2].calls)
        /\ hist[1].faults = {} /\ hist[2].faults = {}
        /\ run[2].results.created = 1
        /\ cid \in ErrorIds(1)
        /\ Cardinality(RowsOf(cid)) = 1
        /\ run[1].results.created + run[2].results.created
             = hist[1].added + hist[2].added

\* C29: in every state every embedding record is complete: its vector is
\* the provider's vector of the text its fingerprint was taken of, and its
\* source text is the first 500 characters of that text.
RecordsConsistent == \A ce \in embeddings : Complete(ce)

\* two overlapping requests for a contact whose content is longer than 500
\* characters and was edited under them: one wrote the record, with its
\* source text cut at 500, the other was refused, and the record is of the
\* content before the edit
RecordsConsistentWitness ==
    \E ce \in embeddings :
        /\ Len(ce.source_text) = SourceTextLen
        /\ Len(Hashed(ce)) > SourceTextLen
        /\ Hashed(ce) # generate_embedding_content(ce.contact_id)
        /\ Done(1) /\ Done(2)
        /\ ce.contact_id \in hist[1].written
        /\ ce.contact_id \in ErrorIds(2)
        /\ hist[1].disturbed

\* a run ends with its 200 response, having met no failure, with no content
\* and no record changed under it by others
EndsUndisturbed(r) ==
    /\ run[r].pc # "done" /\ run'[r].pc = "done" /\ run'[r].status = 200
    /\ ~hist'[r].disturbed
    /\ hist'[r].faults = {}

\* C30: records computed from older content may be stored, when runs overlap
\* with each other and with edits; a run that then ends with no content
\* changing under it and no provider or store failure leaves, for each of
\* its contacts that has content, a record with the fingerprint of the
\* contact's current content.
ConvergenceAfterStaleWrite ==
    [][\A r \in Runs :
         EndsUndisturbed(r)
         => \A cid \in Range(run'[r].ids) :
              generate_embedding_content(cid) # <<>>
              => \E ce \in embeddings' :
                   /\ ce.contact_id = cid
                   /\ ce.content_hash = generateHash(generate_embedding_content(cid))]_vars

====
